---- MODULE Spec2Model ----
(***************************************************************************)
(* A model of replace() of internal/icu/file.cpp: regular-expression       *)
(* replacement over an ICU URegularExpression, with occurrence selection   *)
(* and a working buffer grown on U_BUFFER_OVERFLOW_ERROR.                   *)
(*                                                                         *)
(* Texts are sequences of UTF-16 code units (strings of one character).    *)
(* Offsets are 0-based as in the C code; sequence indices are offset + 1.  *)
(***************************************************************************)
EXTENDS Integers, Sequences, FiniteSets, TLC

(***************************************************************************)
(* Bounds of the model.                                                    *)
(***************************************************************************)
MaxLen == 3        \* longest original text
MaxOcc == 3        \* largest occurrence selector
MaxNegOcc == 2     \* the selector goes down to -MaxNegOcc
MaxReplLen == 2    \* longest literal replacement text
MaxCalls == 2      \* calls of replace on one handle (SpecRepeat)

(***************************************************************************)
(* Program constants.                                                      *)
(***************************************************************************)
SizeofUChar == 2       \* sizeof(UChar): one UTF-16 code unit
SizeofUCharPtr == 8    \* sizeof(UChar*), the factor used at file.cpp:80-81

Alphabet == {"a", "b"}
NUL == "nul"
\* what a read past the end of the working buffer's contents may yield
OverReadUnits == {NUL, "?"}

Patterns == {"a", "a*", "ab"}

U_ZERO_ERROR == "U_ZERO_ERROR"
U_STRING_NOT_TERMINATED_WARNING == "U_STRING_NOT_TERMINATED_WARNING"
U_BUFFER_OVERFLOW_ERROR == "U_BUFFER_OVERFLOW_ERROR"
U_INDEX_OUTOFBOUNDS_ERROR == "U_INDEX_OUTOFBOUNDS_ERROR"
U_ILLEGAL_ARGUMENT_ERROR == "U_ILLEGAL_ARGUMENT_ERROR"
U_REGEX_INVALID_STATE == "U_REGEX_INVALID_STATE"
U_REGEX_INVALID_CAPTURE_GROUP_NAME == "U_REGEX_INVALID_CAPTURE_GROUP_NAME"
U_REGEX_STACK_OVERFLOW == "U_REGEX_STACK_OVERFLOW"

\* U_SUCCESS(x) is (x <= U_ZERO_ERROR): warnings are successes
U_SUCCESS(code) == code \in {U_ZERO_ERROR, U_STRING_NOT_TERMINATED_WARNING}
U_FAILURE(code) == ~U_SUCCESS(code)

Max(x, y) == IF x >= y THEN x ELSE y
Min(x, y) == IF x <= y THEN x ELSE y

SeqUpTo(S, n) == UNION {[1..k -> S] : k \in 0..n}
Fill(u, n) == [k \in 1..n |-> u]

\* std::u16string::resize(n): truncate, or extend with char16_t() units
Resize(buf, n) ==
    IF n <= Len(buf) THEN SubSeq(buf, 1, n) ELSE buf \o Fill(NUL, n - Len(buf))

(***************************************************************************)
(* The matcher (ICU URegularExpression), as far as replace() drives it.    *)
(* A handle is a record                                                    *)
(*   fText, fPattern : the text and the pattern it is bound to             *)
(*   fMatch          : the last find succeeded                             *)
(*   fMatchStart, fMatchEnd : span of the current match                    *)
(*   fLastMatchEnd   : end of the match before it (-1 after a reset)       *)
(*   fUnderReports   : the matcher misreports the length an append needs   *)
(*                     (never so for ICU: FALSE in every handle of Spec)   *)
(***************************************************************************)
RECURSIVE RunOfA(_, _)
RunOfA(text, p) ==
    IF p < Len(text) /\ text[p + 1] = "a" THEN RunOfA(text, p + 1) ELSE p

\* end offset of the match of pat that starts at offset p, or -1
MatchEndAt(pat, text, p) ==
    CASE pat = "a" -> IF p < Len(text) /\ text[p + 1] = "a" THEN p + 1 ELSE -1
      [] pat = "a*" -> RunOfA(text, p)
      [] pat = "ab" -> IF p + 1 < Len(text) /\ text[p + 1] = "a" /\ text[p + 2] = "b"
                       THEN p + 2 ELSE -1

MinMatchLen(pat) == CASE pat = "a" -> 1 [] pat = "a*" -> 0 [] pat = "ab" -> 2

\* offset of the first match starting at or after startPos, or -1
RECURSIVE SearchFrom(_, _, _)
SearchFrom(pat, text, startPos) ==
    IF startPos > Len(text) - MinMatchLen(pat) THEN -1
    ELSE IF MatchEndAt(pat, text, startPos) # -1 THEN startPos
    ELSE SearchFrom(pat, text, startPos + 1)

\* a reset that leaves the position of the last match in place
MatcherReset_KeepsPosition(m) == m

MatcherReset(m) ==
    [m EXCEPT !.fMatch = FALSE, !.fMatchStart = 0, !.fMatchEnd = 0,
              !.fLastMatchEnd = -1]

\* RegexMatcher::find(status): the next match after the current one.
\* fault: the match engine gives up (U_REGEX_STACK_OVERFLOW).
MatcherFindNext(m, status, fault) ==
    IF U_FAILURE(status) THEN [re |-> m, res |-> FALSE, status |-> status]
    ELSE
      LET zeroLen  == m.fMatch /\ m.fMatchStart = m.fMatchEnd
          m1       == IF m.fMatch THEN [m EXCEPT !.fLastMatchEnd = m.fMatchEnd] ELSE m
          startPos == IF zeroLen THEN m.fMatchEnd + 1 ELSE m.fMatchEnd
          miss     == [m1 EXCEPT !.fMatch = FALSE]
      IN  IF zeroLen /\ m.fMatchEnd >= Len(m.fText)
            THEN [re |-> miss, res |-> FALSE, status |-> status]
          ELSE IF ~m.fMatch /\ m.fLastMatchEnd >= 0
            THEN [re |-> m, res |-> FALSE, status |-> status]
          ELSE IF startPos > Len(m.fText) - MinMatchLen(m.fPattern)
            THEN [re |-> miss, res |-> FALSE, status |-> status]
          ELSE IF fault
            THEN [re |-> miss, res |-> FALSE, status |-> U_REGEX_STACK_OVERFLOW]
          ELSE
            LET s == SearchFrom(m.fPattern, m.fText, startPos)
            IN  IF s = -1 THEN [re |-> miss, res |-> FALSE, status |-> status]
                ELSE [re |-> [m1 EXCEPT !.fMatch = TRUE,
                                        !.fMatchStart = s,
                                        !.fMatchEnd = MatchEndAt(m.fPattern, m.fText, s),
                                        !.fLastMatchEnd = m.fMatchEnd],
                      res |-> TRUE, status |-> status]

\* uregex_find(regexp, startIndex, status)
uregex_find(m, startIndex, status, fault) ==
    IF U_FAILURE(status) THEN [re |-> m, res |-> FALSE, status |-> status]
    ELSE IF startIndex = -1 THEN MatcherFindNext(MatcherReset(m), status, fault)
    ELSE IF startIndex < 0 \/ startIndex > Len(m.fText)
      THEN [re |-> MatcherReset(m), res |-> FALSE, status |-> U_INDEX_OUTOFBOUNDS_ERROR]
    ELSE MatcherFindNext([MatcherReset(m) EXCEPT !.fMatchEnd = startIndex], status, fault)

\* uregex_findNext(regexp, status)
uregex_findNext(m, status, fault) == MatcherFindNext(m, status, fault)

\* uregex_end(regexp, 0, status)
uregex_end(m, status) ==
    IF U_FAILURE(status) THEN [val |-> -1, status |-> status]
    ELSE IF ~m.fMatch THEN [val |-> -1, status |-> U_REGEX_INVALID_STATE]
    ELSE [val |-> m.fMatchEnd, status |-> status]

\* text of capture group 0 of the current match
GroupText(m) == SubSeq(m.fText, m.fMatchStart + 1, m.fMatchEnd)

\* The scan of the replacement text by uregex_appendReplacement: a "$"
\* followed by digits is a group reference (the patterns here have group 0
\* only), a "$" followed by anything else is an error that ends the scan.
RECURSIVE ScanDigits(_, _)
ScanDigits(repl, idx) ==
    IF idx <= Len(repl) /\ repl[idx] = "0" THEN ScanDigits(repl, idx + 1) ELSE idx

RECURSIVE ScanReplacement(_, _, _, _)
ScanReplacement(repl, idx, group, acc) ==
    IF idx > Len(repl) THEN [out |-> acc, status |-> U_ZERO_ERROR]
    ELSE IF repl[idx] # "$" THEN ScanReplacement(repl, idx + 1, group, Append(acc, repl[idx]))
    ELSE IF idx + 1 <= Len(repl) /\ repl[idx + 1] = "0"
      THEN ScanReplacement(repl, ScanDigits(repl, idx + 1), group, acc \o group)
    ELSE [out |-> acc, status |-> U_REGEX_INVALID_CAPTURE_GROUP_NAME]

\* dest[0 .. capacity) := as much of out as fits, NUL-terminated if room is left
WriteDest(buf, pos, out, capacity) ==
    [k \in 1..Len(buf) |->
        IF k > pos /\ k <= pos + Min(Len(out), capacity) THEN out[k - pos]
        ELSE IF k = pos + Len(out) + 1 /\ Len(out) < capacity THEN NUL
        ELSE buf[k]]

\* The length an append reports.  ICU reports the exact length; a handle with
\* fUnderReports set stands for a matcher whose report on overflow is one
\* unit short, the case of a second overflow after the resize.
ReportedLength(m, needed, status) ==
    IF m.fUnderReports /\ status = U_BUFFER_OVERFLOW_ERROR THEN needed - 1 ELSE needed

\* uregex_appendReplacement(regexp, replacement, replacementLen, &dest,
\* &capacity, status) with dest = buf + pos: the text between the previous
\* match and this one, then the substitution.  n is the length needed.
uregex_appendReplacement(m, repl, buf, pos, capacity, status) ==
    LET pending == status = U_BUFFER_OVERFLOW_ERROR /\ capacity = 0
        st0     == IF pending THEN U_ZERO_ERROR ELSE status
    IN  IF U_FAILURE(st0) THEN [buf |-> buf, n |-> 0, status |-> st0]
        ELSE IF capacity < 0 THEN [buf |-> buf, n |-> 0, status |-> U_ILLEGAL_ARGUMENT_ERROR]
        ELSE IF ~m.fMatch THEN [buf |-> buf, n |-> 0, status |-> U_REGEX_INVALID_STATE]
        ELSE
          LET between == SubSeq(m.fText, m.fLastMatchEnd + 1, m.fMatchStart)
              scan    == ScanReplacement(repl, 1, GroupText(m), between)
              destIdx == Len(scan.out)
              st1     == IF U_FAILURE(scan.status) THEN scan.status
                         ELSE IF destIdx < capacity THEN st0
                         ELSE IF destIdx = capacity THEN U_STRING_NOT_TERMINATED_WARNING
                         ELSE U_BUFFER_OVERFLOW_ERROR
              st2     == IF pending /\ U_SUCCESS(st1) THEN U_BUFFER_OVERFLOW_ERROR ELSE st1
          IN  [buf |-> WriteDest(buf, pos, scan.out, capacity),
               n |-> ReportedLength(m, destIdx, st2), status |-> st2]

\* uregex_appendTail(regexp, &dest, &capacity, status) with dest = buf + pos:
\* the text after the current match (after the last match when the last
\* find failed).  n is the length needed.
uregex_appendTail(m, buf, pos, capacity, status) ==
    LET pending == status = U_BUFFER_OVERFLOW_ERROR /\ capacity = 0
        st0     == IF pending THEN U_ZERO_ERROR ELSE status
    IN  IF U_FAILURE(st0) THEN [buf |-> buf, n |-> 0, status |-> st0]
        ELSE IF capacity < 0 THEN [buf |-> buf, n |-> 0, status |-> U_ILLEGAL_ARGUMENT_ERROR]
        ELSE
          LET nativeIdx == IF m.fMatch THEN m.fMatchEnd ELSE m.fLastMatchEnd
              srcIdx    == IF nativeIdx = -1 THEN 0 ELSE nativeIdx
              tail      == SubSeq(m.fText, srcIdx + 1, Len(m.fText))
              destIdx   == Len(tail)
              st1       == IF destIdx < capacity THEN st0
                           ELSE IF destIdx = capacity THEN U_STRING_NOT_TERMINATED_WARNING
                           ELSE U_BUFFER_OVERFLOW_ERROR
              st2       == IF pending /\ U_SUCCESS(st1) THEN U_BUFFER_OVERFLOW_ERROR ELSE st1
          IN  [buf |-> WriteDest(buf, pos, tail, capacity),
               n |-> ReportedLength(m, destIdx, st2), status |-> st2]

\* uregex_getText(regexp, &len, status)
uregex_getText(m, status) ==
    IF U_FAILURE(status) THEN [text |-> <<>>, status |-> status]
    ELSE [text |-> m.fText, status |-> status]

(***************************************************************************)
(* The helpers of file.cpp.  Each returns the working buffer, the write    *)
(* cursor and the error code as it leaves them, with two records of what   *)
(* it did: calls, the number of calls it made into the matcher, and wrote, *)
(* the number of units of output it put into the buffer.                   *)
(***************************************************************************)

\* an appendHead that copies whatever uregex_getText left in the error code
appendHead_NoStatusCheck(m, buf, pos, status, size) ==
    IF size = 0 THEN [buf |-> buf, pos |-> pos, status |-> status, calls |-> 0, wrote |-> 0]
    ELSE
      LET got   == uregex_getText(m, status)
          grown == IF Len(buf) < size THEN Resize(buf, size) ELSE buf
      IN  [buf    |-> [k \in 1..Len(grown) |->
                         IF k <= size
                         THEN (IF k <= Len(got.text) THEN got.text[k] ELSE "?")
                         ELSE grown[k]],
           pos    |-> size,
           status |-> got.status,
           calls  |-> 1,
           wrote  |-> size]

\* file.cpp:13-21
appendHead(m, buf, pos, status, size) ==
    IF size = 0 THEN [buf |-> buf, pos |-> pos, status |-> status, calls |-> 0, wrote |-> 0]
    ELSE
      LET got == uregex_getText(m, status)
      IN  IF got.status # U_ZERO_ERROR
            THEN [buf |-> buf, pos |-> pos, status |-> got.status, calls |-> 1, wrote |-> 0]
          ELSE
            LET grown == IF Len(buf) < size THEN Resize(buf, size) ELSE buf
            IN  [buf    |-> [k \in 1..Len(grown) |->
                               IF k <= size
                               THEN (IF k <= Len(got.text) THEN got.text[k] ELSE "?")
                               ELSE grown[k]],
                 pos    |-> size,
                 status |-> got.status,
                 calls  |-> 1,
                 wrote  |-> size]

\* a guard that never finds the buffer empty
BufferIsEmpty_Never(buf) == FALSE

\* file.cpp:24: the guard on an empty working buffer
BufferIsEmpty(buf) == Len(buf) = 0

\* file.cpp:23-28
tryToAppendReplacement(m, buf, pos, status, repl) ==
    IF BufferIsEmpty(buf) THEN [buf |-> buf, n |-> 0, status |-> status, calls |-> 0]
    ELSE
      LET r == uregex_appendReplacement(m, repl, buf, pos, Len(buf) - pos, status)
      IN  [buf |-> r.buf, n |-> r.n, status |-> r.status, calls |-> 1]

\* the cursor left out of the size
RequiredBufferSize_WithoutCursor(pos, needed) == needed

\* file.cpp:33-34: the size the buffer is grown to after an overflow
RequiredBufferSize(pos, needed) == pos + needed

\* file.cpp:30-39
appendReplacement(m, buf, pos, status, repl) ==
    LET first == tryToAppendReplacement(m, buf, pos, status, repl)
    IN  IF first.status = U_BUFFER_OVERFLOW_ERROR
          THEN
            LET grown == Resize(first.buf, RequiredBufferSize(pos, first.n))
                again == tryToAppendReplacement(m, grown, pos, U_ZERO_ERROR, repl)
            IN  [buf    |-> again.buf,
                 pos    |-> pos + first.n,
                 status |-> again.status,
                 calls  |-> first.calls + again.calls,
                 wrote  |-> Min(again.n, Len(grown) - pos)]
          ELSE  [buf    |-> first.buf,
                 pos    |-> pos + first.n,
                 status |-> first.status,
                 calls  |-> first.calls,
                 wrote  |-> Min(first.n, Max(Len(buf) - pos, 0))]

\* file.cpp:41-46
tryToAppendTail(m, buf, pos, status) ==
    IF BufferIsEmpty(buf) THEN [buf |-> buf, n |-> 0, status |-> status, calls |-> 0]
    ELSE
      LET r == uregex_appendTail(m, buf, pos, Len(buf) - pos, status)
      IN  [buf |-> r.buf, n |-> r.n, status |-> r.status, calls |-> 1]

\* file.cpp:48-57
appendTail(m, buf, pos, status) ==
    LET first == tryToAppendTail(m, buf, pos, status)
    IN  IF first.status = U_BUFFER_OVERFLOW_ERROR
          THEN
            LET grown == Resize(first.buf, RequiredBufferSize(pos, first.n))
                again == tryToAppendTail(m, grown, pos, U_ZERO_ERROR)
            IN  [buf    |-> again.buf,
                 pos    |-> pos + first.n,
                 status |-> again.status,
                 calls  |-> first.calls + again.calls,
                 wrote  |-> Min(again.n, Len(grown) - pos)]
          ELSE  [buf    |-> first.buf,
                 pos    |-> pos + first.n,
                 status |-> first.status,
                 calls  |-> first.calls,
                 wrote  |-> Min(first.n, Max(Len(buf) - pos, 0))]

\* a skip loop that goes on after a findNext that found nothing
SkipsAnother_IgnoringFound(idx, occ, fnd) == idx < occ

\* a skip loop that runs once more than occurrence - 1 times
SkipsAnother_OncePerOccurrence(idx, occ, fnd) == idx <= occ /\ fnd

\* file.cpp:66: the condition of the loop that skips occurrence-1 matches
SkipsAnother(idx, occ, fnd) == idx < occ /\ fnd

\* the test of the error code inverted
ReturnsOriginal_InvertedStatus(fnd, status) == ~fnd /\ U_FAILURE(status)

\* file.cpp:70: the condition under which the caller's buffer is returned
ReturnsOriginal(fnd, status) == ~fnd /\ U_SUCCESS(status)

\* a head that ends at the start offset whatever was skipped
HeadSize_StartOnly(endOfPrevious, startIndex) == startIndex

\* file.cpp:72: the size handed to appendHead
HeadSize(endOfPrevious, startIndex) == Max(endOfPrevious, startIndex)

\* a loop that goes on to the next match whatever the selector
ReplacesAll_Always(occ) == TRUE

\* a loop that takes every selector below 1 for "all"
ReplacesAll_NonPositive(occ) == occ <= 0

\* file.cpp:76: whether findNext is asked for after a replacement
ReplacesAll(occ) == occ = 0

\* file.cpp:80-81: the number of bytes allocated for, and copied into, the result
ResultBytes(size) == size * SizeofUCharPtr

(***************************************************************************)
(* replace(): file.cpp:59-84, one action per step of its control flow.     *)
(***************************************************************************)
VARIABLES
    regexp,                \* the matcher handle
    replacement,           \* replacement text (replacementLen is its length)
    original,              \* the caller's text (originalSize is its length)
    start,                 \* start offset
    occurrence,            \* the occurrence selector
    pc,                    \* position in replace()
    returnSize,            \* *returnSize
    m_error_code,
    m_replace_buffer,
    m_replace_buffer_pos,
    found,
    end_of_previous_match,
    i,                     \* the counter of the skip loop
    returnStr,             \* what replace() returns
    allocated,             \* bytes asked of malloc (0: nothing allocated)
    copied,                \* bytes memcpy read from the working buffer
    log,                   \* the calls made so far in this call of replace, in order
    callNo,                \* which call of replace on this handle this is
    previous               \* what the call before this one returned

vars == <<regexp, replacement, original, start, occurrence, pc, returnSize,
          m_error_code, m_replace_buffer, m_replace_buffer_pos, found,
          end_of_previous_match, i, returnStr, allocated, copied, log,
          callNo, previous>>

inputs == <<replacement, original, start, occurrence, callNo, previous>>

originalSize == Len(original)

\* Replacement texts: literal ones, the text "a", a reference to the whole
\* match, and one with a "$" that no group number follows.
Replacements ==
    {Fill("X", n) : n \in 0..MaxReplLen}
      \cup {<<"a">>, <<"$", "0">>, Fill("X", MaxReplLen) \o <<"$">>}

Starts == (-2)..(MaxLen + 1)
Occurrences == (-MaxNegOcc)..MaxOcc

\* one record of the log
Event(op, res, n, wrote, calls, r) ==
    [op |-> op, res |-> res, n |-> n, wrote |-> wrote, calls |-> calls,
     status |-> r.status, pos |-> r.pos, size |-> Len(r.buf)]

\* the state at the call of replace, with handles whose fUnderReports is in reporting
InitState(reporting) ==
    /\ original \in SeqUpTo(Alphabet, MaxLen)
    /\ replacement \in Replacements
    /\ start \in Starts
    /\ occurrence \in Occurrences
    /\ \E pat \in Patterns, u \in reporting :
         regexp = [fText |-> original, fPattern |-> pat, fMatch |-> FALSE,
                   fMatchStart |-> 0, fMatchEnd |-> 0, fLastMatchEnd |-> -1,
                   fUnderReports |-> u]
    /\ pc = "call"
    /\ returnSize = 0
    /\ m_error_code = U_ZERO_ERROR
    /\ m_replace_buffer = <<>>
    /\ m_replace_buffer_pos = 0
    /\ found = FALSE
    /\ end_of_previous_match = 0
    /\ i = 1
    /\ returnStr = [ptr |-> "none", units |-> <<>>]
    /\ allocated = 0
    /\ copied = 0
    /\ log = <<>>
    /\ callNo = 1
    /\ previous = [ptr |-> "none", text |-> <<>>, size |-> 0, faults |-> {}]

\* file.cpp:60-65: the locals, and the first find
Enter ==
    /\ pc = "call"
    /\ \E fault \in BOOLEAN :
         LET r == uregex_find(regexp, start, U_ZERO_ERROR, fault)
         IN  /\ regexp' = r.re
             /\ found' = r.res
             /\ m_error_code' = r.status
             /\ log' = Append(log, Event("find", r.res, 0, 0, 1,
                                 [buf |-> <<>>, pos |-> 0, status |-> r.status]))
    /\ returnSize' = originalSize
    /\ m_replace_buffer' = <<>>
    /\ m_replace_buffer_pos' = 0
    /\ end_of_previous_match' = 0
    /\ i' = 1
    /\ pc' = "skip"
    /\ UNCHANGED <<inputs, returnStr, allocated, copied>>

\* file.cpp:66-69: one iteration of the skip loop
SkipMatch ==
    /\ pc = "skip"
    /\ SkipsAnother(i, occurrence, found)
    /\ \E fault \in BOOLEAN :
         LET e == uregex_end(regexp, m_error_code)
             r == uregex_findNext(regexp, e.status, fault)
         IN  /\ end_of_previous_match' = e.val
             /\ regexp' = r.re
             /\ found' = r.res
             /\ m_error_code' = r.status
             /\ log' = Append(log, Event("skip", r.res, e.val, 0, 2,
                                 [buf |-> m_replace_buffer, pos |-> m_replace_buffer_pos,
                                  status |-> r.status]))
    /\ i' = i + 1
    /\ UNCHANGED <<inputs, pc, returnSize, m_replace_buffer, m_replace_buffer_pos,
                   returnStr, allocated, copied>>

\* file.cpp:70: no qualifying match and no error: the caller's buffer
ReturnOriginal ==
    /\ pc = "skip"
    /\ ~SkipsAnother(i, occurrence, found)
    /\ ReturnsOriginal(found, m_error_code)
    /\ returnStr' = [ptr |-> "original", units |-> original]
    /\ pc' = "done"
    /\ UNCHANGED <<regexp, inputs, returnSize, m_error_code, m_replace_buffer,
                   m_replace_buffer_pos, found, end_of_previous_match, i,
                   allocated, copied, log>>

\* file.cpp:71-73: size the working buffer and copy the head
BeginBuild ==
    /\ pc = "skip"
    /\ ~SkipsAnother(i, occurrence, found)
    /\ ~ReturnsOriginal(found, m_error_code)
    /\ LET sized == Resize(m_replace_buffer, originalSize)
           r == appendHead(regexp, sized, m_replace_buffer_pos, m_error_code,
                           HeadSize(end_of_previous_match, start))
       IN  /\ m_replace_buffer' = r.buf
           /\ m_replace_buffer_pos' = r.pos
           /\ m_error_code' = r.status
           /\ log' = Append(log, Event("appendHead", TRUE, r.wrote, r.wrote, r.calls, r))
    /\ pc' = IF found THEN "replace" ELSE "tail"
    /\ UNCHANGED <<regexp, inputs, returnSize, found, end_of_previous_match, i,
                   returnStr, allocated, copied>>

\* file.cpp:75: the body of the do-while
ReplaceMatch ==
    /\ pc = "replace"
    /\ LET r == appendReplacement(regexp, m_replace_buffer, m_replace_buffer_pos,
                                  m_error_code, replacement)
       IN  /\ m_replace_buffer' = r.buf
           /\ m_replace_buffer_pos' = r.pos
           /\ m_error_code' = r.status
           /\ log' = Append(log, Event("appendReplacement", TRUE,
                                 r.pos - m_replace_buffer_pos, r.wrote, r.calls, r))
    /\ pc' = "next"
    /\ UNCHANGED <<regexp, inputs, returnSize, found, end_of_previous_match, i,
                   returnStr, allocated, copied>>

\* file.cpp:76: the condition of the do-while; findNext is called only
\* when the selector is 0
NextMatch ==
    /\ pc = "next"
    /\ ReplacesAll(occurrence)
    /\ \E fault \in BOOLEAN :
         LET r == uregex_findNext(regexp, m_error_code, fault)
         IN  /\ regexp' = r.re
             /\ m_error_code' = r.status
             /\ log' = Append(log, Event("findNext", r.res, 0, 0, 1,
                                 [buf |-> m_replace_buffer, pos |-> m_replace_buffer_pos,
                                  status |-> r.status]))
             /\ pc' = IF r.res THEN "replace" ELSE "tail"
    /\ UNCHANGED <<inputs, returnSize, m_replace_buffer, m_replace_buffer_pos, found,
                   end_of_previous_match, i, returnStr, allocated, copied>>

LeaveLoop ==
    /\ pc = "next"
    /\ ~ReplacesAll(occurrence)
    /\ pc' = "tail"
    /\ UNCHANGED <<regexp, inputs, returnSize, m_error_code, m_replace_buffer,
                   m_replace_buffer_pos, found, end_of_previous_match, i,
                   returnStr, allocated, copied, log>>

\* file.cpp:78
CopyTail ==
    /\ pc = "tail"
    /\ LET r == appendTail(regexp, m_replace_buffer, m_replace_buffer_pos, m_error_code)
       IN  /\ m_replace_buffer' = r.buf
           /\ m_replace_buffer_pos' = r.pos
           /\ m_error_code' = r.status
           /\ log' = Append(log, Event("appendTail", TRUE,
                                 r.pos - m_replace_buffer_pos, r.wrote, r.calls, r))
    /\ pc' = "finalize"
    /\ UNCHANGED <<regexp, inputs, returnSize, found, end_of_previous_match, i,
                   returnStr, allocated, copied>>

\* file.cpp:79-83: truncate to the cursor, allocate, copy, report the size.
\* memcpy reads ResultBytes(size) bytes from a buffer that holds size units;
\* what lies past them is whatever memory follows.
Finalize ==
    /\ pc = "finalize"
    /\ LET trimmed == Resize(m_replace_buffer, m_replace_buffer_pos)
           bytes   == ResultBytes(Len(trimmed))
           units   == bytes \div SizeofUChar
       IN  /\ m_replace_buffer' = trimmed
           /\ allocated' = bytes
           /\ copied' = bytes
           /\ \E g \in OverReadUnits :
                returnStr' = [ptr |-> "new",
                              units |-> [k \in 1..units |->
                                           IF k <= Len(trimmed) THEN trimmed[k] ELSE g]]
           /\ returnSize' = Len(trimmed)
    /\ pc' = "done"
    /\ UNCHANGED <<regexp, inputs, m_error_code, m_replace_buffer_pos, found,
                   end_of_previous_match, i, log>>

Next ==
    \/ Enter
    \/ SkipMatch
    \/ ReturnOriginal
    \/ BeginBuild
    \/ ReplaceMatch
    \/ NextMatch
    \/ LeaveLoop
    \/ CopyTail
    \/ Finalize

\* the text the caller is told it got: returnSize units at the returned pointer
ResultText ==
    IF returnStr.ptr = "original" THEN SubSeq(original, 1, returnSize)
    ELSE SubSeq(returnStr.units, 1, returnSize)

\* where in this call the match engine gave up
FaultPoints == {k \in 1..Len(log) : log[k].status = U_REGEX_STACK_OVERFLOW}

\* The caller calls replace again with the same arguments on the same
\* handle, which is in the state the call before left it in.
CallAgain ==
    /\ pc = "done"
    /\ callNo < MaxCalls
    /\ callNo' = callNo + 1
    /\ previous' = [ptr |-> returnStr.ptr, text |-> ResultText, size |-> returnSize,
                    faults |-> FaultPoints]
    /\ returnStr' = [ptr |-> "none", units |-> <<>>]
    /\ allocated' = 0
    /\ copied' = 0
    /\ log' = <<>>
    /\ pc' = "call"
    /\ UNCHANGED <<regexp, replacement, original, start, occurrence, returnSize,
                   m_error_code, m_replace_buffer, m_replace_buffer_pos, found,
                   end_of_previous_match, i>>

Init == InitState({FALSE})

Spec == Init /\ [][Next]_vars

\* replace over handles that may misreport the length an append needs
InitMisreport == InitState(BOOLEAN)

SpecMisreport == InitMisreport /\ [][Next]_vars

\* MaxCalls calls of replace, one after the other, on the same handle
NextRepeat ==
    \/ Next
    \/ CallAgain

\* replace has been called and has not returned
Running == pc # "done"

\* A step of replace as its position shows it: every statement of
\* file.cpp:60-83 moves pc, but for a pass of the skip loop, which adds one
\* to i.  Enabled exactly while replace is running.
Step ==
    /\ Running
    /\ pc' \in {"skip", "replace", "next", "tail", "finalize", "done"}
    /\ i' \in {i, i + 1}

\* replace is sequential code on its caller's thread and waits for nothing:
\* while it is running it takes its next step.
FairSpec == Spec /\ WF_<<pc, i>>(Step)

SpecRepeat == Init /\ [][NextRepeat]_vars

(***************************************************************************)
(* Vocabulary of the properties.                                           *)
(***************************************************************************)
AppendOps == {"appendHead", "appendReplacement", "appendTail"}

Built == pc = "done" /\ returnStr.ptr = "new"

\* no call logged so far left a failure in the error code
NoMatcherError == \A k \in 1..Len(log) : U_SUCCESS(log[k].status)

\* The spans of the matches the matcher reports from start onward.
RECURSIVE SpansAfter(_, _)
SpansAfter(m, acc) ==
    LET r == uregex_findNext(m, U_ZERO_ERROR, FALSE)
    IN  IF r.res
          THEN SpansAfter(r.re, Append(acc, [s |-> r.re.fMatchStart, e |-> r.re.fMatchEnd]))
          ELSE acc

MatchSpans ==
    LET r == uregex_find(regexp, start, U_ZERO_ERROR, FALSE)
    IN  IF r.res
          THEN SpansAfter(r.re, <<[s |-> r.re.fMatchStart, e |-> r.re.fMatchEnd]>>)
          ELSE <<>>

MatchText(span) == SubSeq(original, span.s + 1, span.e)
SubstitutionFor(span) == ScanReplacement(replacement, 1, MatchText(span), <<>>).out

\* The original text with the matches selected by sel (all of them when
\* sel = 0, the sel-th otherwise) substituted and everything else kept.
RECURSIVE Substituted(_, _, _, _, _)
Substituted(spans, j, sel, from, acc) ==
    IF j > Len(spans) THEN acc \o SubSeq(original, from + 1, originalSize)
    ELSE IF sel = 0 \/ sel = j
      THEN Substituted(spans, j + 1, sel, spans[j].e,
                       acc \o SubSeq(original, from + 1, spans[j].s)
                           \o SubstitutionFor(spans[j]))
    ELSE Substituted(spans, j + 1, sel, from, acc)

RECURSIVE SumOver(_, _)
SumOver(f, n) == IF n = 0 THEN 0 ELSE f[n] + SumOver(f, n - 1)

\* units put into the working buffer by the appends logged so far
UnitsWritten ==
    SumOver([k \in 1..Len(log) |-> IF log[k].op \in AppendOps THEN log[k].wrote ELSE 0],
            Len(log))

(***************************************************************************)
(* C1.  When the first find reports no match and no error, replace returns *)
(* the caller's own buffer and originalSize, and the working buffer is     *)
(* never sized nor anything allocated.                                     *)
(***************************************************************************)
FirstFindMissed ==
    /\ Len(log) >= 1
    /\ log[1].op = "find"
    /\ ~log[1].res
    /\ U_SUCCESS(log[1].status)

C1_NoMatchReturnsOriginal ==
    FirstFindMissed =>
        /\ m_replace_buffer = <<>>
        /\ allocated = 0
        /\ Len(log) = 1
        /\ pc \in {"skip", "done"}
        /\ pc = "done" =>
             /\ returnStr = [ptr |-> "original", units |-> original]
             /\ returnSize = originalSize

C1_Witness ==
    /\ pc = "done"
    /\ FirstFindMissed
    /\ originalSize = MaxLen
    /\ start > 0
    /\ returnStr.ptr = "original"

(***************************************************************************)
(* C4.  With a selector k > 0, when a findNext of the skip loop reports no *)
(* match and no error, replace returns the caller's buffer and             *)
(* originalSize, and makes no appendHead, appendReplacement or appendTail. *)
(***************************************************************************)
SkipMissed ==
    \E k \in 1..Len(log) :
        log[k].op = "skip" /\ ~log[k].res /\ U_SUCCESS(log[k].status)

C4_TooFewMatchesReturnsOriginal ==
    (occurrence > 0 /\ SkipMissed) =>
        /\ \A k \in 1..Len(log) : log[k].op \notin AppendOps
        /\ m_replace_buffer = <<>>
        /\ allocated = 0
        /\ pc \in {"skip", "done"}
        /\ pc = "done" =>
             /\ returnStr = [ptr |-> "original", units |-> original]
             /\ returnSize = originalSize

C4_Witness ==
    /\ pc = "done"
    /\ occurrence = MaxOcc
    /\ SkipMissed
    /\ Len(MatchSpans) = MaxOcc - 1
    /\ returnStr.ptr = "original"

(***************************************************************************)
(* C2.  With selector 0 and no matcher error, the result is the original   *)
(* text with every match the matcher reports from start onward replaced by *)
(* its substitution and all other text unchanged, and one                  *)
(* appendReplacement is made per match; the empty text and matches of the  *)
(* empty string included.                                                  *)
(***************************************************************************)
C2_ReplacesEveryMatch ==
    (pc = "done" /\ occurrence = 0 /\ NoMatcherError) =>
        /\ ResultText = Substituted(MatchSpans, 1, 0, 0, <<>>)
        /\ Cardinality({k \in 1..Len(log) : log[k].op = "appendReplacement"})
             = Len(MatchSpans)

(***************************************************************************)
(* C3.  With selector k > 0, at least k matches from start onward and no   *)
(* matcher error, the result is original[0, s_k) + substitution +          *)
(* original[e_k, originalSize) for the span [s_k, e_k) of the k-th match.  *)
(***************************************************************************)
C3_ReplacesOnlyKth ==
    (pc = "done" /\ occurrence > 0 /\ Len(MatchSpans) >= occurrence /\ NoMatcherError) =>
        LET span == MatchSpans[occurrence]
        IN  /\ returnStr.ptr = "new"
            /\ ResultText = SubSeq(original, 1, span.s)
                              \o SubstitutionFor(span)
                              \o SubSeq(original, span.e + 1, originalSize)
            /\ returnSize = Len(ResultText)

(***************************************************************************)
(* C5.  Once a call into the matcher has left an error other than          *)
(* U_BUFFER_OVERFLOW_ERROR, replace makes no further call, allocates       *)
(* nothing and returns no newly built text.                                *)
(***************************************************************************)
C5_ErrorAborts ==
    \A k \in 1..Len(log) :
        U_FAILURE(log[k].status) =>
            /\ k = Len(log)
            /\ allocated = 0
            /\ returnStr.ptr # "new"

(***************************************************************************)
(* C6.  Whenever replace builds a new result, the length it reports is the *)
(* write cursor after appendTail, and that is the number of units the      *)
(* appends put into the working buffer.                                    *)
(***************************************************************************)
C6_LengthIsUnitsWritten ==
    Built =>
        /\ returnSize = m_replace_buffer_pos
        /\ returnSize = Len(m_replace_buffer)
        /\ returnSize = UnitsWritten

(***************************************************************************)
(* C7.  Whenever replace builds a new result, the allocation and the final *)
(* copy are of exactly returnSize character units, so the copy reads only  *)
(* units [0, returnSize) of the working buffer.                            *)
(***************************************************************************)
C7_AllocatesExactlyResultLength ==
    Built =>
        /\ allocated = returnSize * SizeofUChar
        /\ copied = returnSize * SizeofUChar
        /\ Len(returnStr.units) = returnSize

(***************************************************************************)
(* C8.  With selector 0, n >= 1 matches from start onward and no matcher   *)
(* error, the result length is originalSize minus the lengths of the n     *)
(* matched spans plus the lengths of the n substitutions, and the result   *)
(* is what the same appends produce in a buffer that never overflows.      *)
(***************************************************************************)
AmpleSize == (MaxLen + 2) * (MaxLen + MaxReplLen + 2)

\* the do-while of replace with selector 0, then appendTail, from frame f
RECURSIVE ReplaceAllFrom(_, _)
ReplaceAllFrom(m, f) ==
    LET r  == appendReplacement(m, f.buf, f.pos, f.status, replacement)
        nx == uregex_findNext(m, r.status, FALSE)
    IN  IF nx.res THEN ReplaceAllFrom(nx.re, r)
        ELSE appendTail(nx.re, r.buf, r.pos, nx.status)

\* the text replace builds with selector 0 in a working buffer of AmpleSize units
AmpleResult ==
    LET fnd  == uregex_find(regexp, start, U_ZERO_ERROR, FALSE)
        head == appendHead(fnd.re, Fill(NUL, AmpleSize), 0, fnd.status, HeadSize(0, start))
        done == ReplaceAllFrom(fnd.re, head)
    IN  SubSeq(done.buf, 1, done.pos)

SpanLengths(spans) == SumOver([j \in 1..Len(spans) |-> spans[j].e - spans[j].s], Len(spans))
SubstitutionLengths(spans) ==
    SumOver([j \in 1..Len(spans) |-> Len(SubstitutionFor(spans[j]))], Len(spans))

C8_GrowthKeepsLengthAndContent ==
    (pc = "done" /\ occurrence = 0 /\ Len(MatchSpans) >= 1 /\ NoMatcherError) =>
        /\ returnStr.ptr = "new"
        /\ returnSize = originalSize - SpanLengths(MatchSpans)
                          + SubstitutionLengths(MatchSpans)
        /\ ResultText = AmpleResult

(***************************************************************************)
(* C9.  For a selector 0 or k > 0: if the text substituted at each         *)
(* replaced match is the text of that match, the text and the length       *)
(* replace returns are the original text and originalSize.                 *)
(***************************************************************************)
\* the matches a selector picks: all for 0, the first for a selector below 1
Selected(j) == occurrence = 0 \/ j = Max(occurrence, 1)

SubstitutesMatchedText ==
    \A j \in 1..Len(MatchSpans) :
        Selected(j) => SubstitutionFor(MatchSpans[j]) = MatchText(MatchSpans[j])

C9_SelfSubstitutionIsIdentity ==
    (pc = "done" /\ occurrence >= 0 /\ SubstitutesMatchedText) =>
        /\ returnSize = originalSize
        /\ ResultText = original

(***************************************************************************)
(* C10.  After appendHead, appendReplacement or appendTail returns, the    *)
(* write cursor is within the working buffer: 0 <= position <= size,       *)
(* whatever the matcher reported.                                          *)
(***************************************************************************)
AfterAppend == pc \in {"replace", "next", "tail", "finalize"}

C10_CursorWithinBuffer ==
    AfterAppend =>
        /\ 0 <= m_replace_buffer_pos
        /\ m_replace_buffer_pos <= Len(m_replace_buffer)

(***************************************************************************)
(* C11.  An appendReplacement or appendTail whose first attempt reports    *)
(* U_BUFFER_OVERFLOW_ERROR with needed length L grows the buffer to        *)
(* exactly cursor + L and retries once; the retry writes all L units and   *)
(* does not overflow.  An append calls the matcher at most twice and never *)
(* returns with U_BUFFER_OVERFLOW_ERROR as the error code.                 *)
(***************************************************************************)
GrowingOps == {"appendReplacement", "appendTail"}

C11_OneResizeOneRetry ==
    \A k \in 1..Len(log) :
        log[k].op \in GrowingOps =>
            /\ log[k].calls <= 2
            /\ log[k].status # U_BUFFER_OVERFLOW_ERROR
            /\ log[k].calls = 2 =>
                 /\ log[k].size = log[k].pos
                 /\ log[k].wrote = log[k].n
                 /\ log[k].size > log[k - 1].size
                 /\ U_SUCCESS(log[k].status)

C11_Witness ==
    /\ pc = "done"
    /\ \E k \in 1..Len(log) : log[k].op = "appendReplacement" /\ log[k].calls = 2
    /\ \E k \in 1..Len(log) : log[k].op = "appendTail" /\ log[k].calls = 2

(***************************************************************************)
(* C12.  If the retry after the resize reports U_BUFFER_OVERFLOW_ERROR     *)
(* again, the append does not advance the cursor and replace returns no    *)
(* newly built text.  Checked over handles that may misreport the needed   *)
(* length (SpecMisreport), the only way a retry can overflow.              *)
(***************************************************************************)
RetryOverflowed(k) ==
    /\ log[k].op \in GrowingOps
    /\ log[k].calls = 2
    /\ log[k].status = U_BUFFER_OVERFLOW_ERROR

C12_SecondOverflowIsFatal ==
    \A k \in 1..Len(log) :
        RetryOverflowed(k) =>
            /\ log[k].pos = log[k - 1].pos
            /\ returnStr.ptr # "new"

(***************************************************************************)
(* C13.  Whenever replace builds a result, its appends are, in order:      *)
(* appendHead once, then the appendReplacement calls, then appendTail      *)
(* once, then the truncation to the cursor.  There is exactly one          *)
(* appendReplacement when the selector is not 0 and a match was found, and *)
(* one per match the matcher reported when the selector is 0.  Nothing is  *)
(* appended after appendTail or after the truncation, and nothing is       *)
(* appended at all on the path that returns the original.                  *)
(***************************************************************************)
Appends == SelectSeq(log, LAMBDA e : e.op \in AppendOps)

CountOf(op) == Cardinality({k \in 1..Len(log) : log[k].op = op})

\* the matches the matcher reported in this call, the skipped ones left out
MatchesReported ==
    Cardinality({k \in 1..Len(log) : log[k].op = "findNext" /\ log[k].res})
        + (IF found \/ CountOf("findNext") > 0 THEN 1 ELSE 0)

C13_AppendOrder ==
    /\ \A j \in 1..Len(Appends) :
          /\ (Appends[j].op = "appendHead") <=> (j = 1)
          /\ Appends[j].op = "appendTail" => j = Len(Appends)
    /\ returnStr.ptr = "original" => Appends = <<>>
    /\ Built =>
          /\ Appends # <<>>
          /\ log[Len(log)].op = "appendTail"
          /\ Len(m_replace_buffer) = m_replace_buffer_pos
          /\ m_replace_buffer_pos = log[Len(log)].pos
          /\ occurrence # 0 => CountOf("appendReplacement") = (IF found THEN 1 ELSE 0)
          /\ occurrence = 0 => CountOf("appendReplacement") = MatchesReported
          /\ occurrence = 0 /\ NoMatcherError =>
                CountOf("appendReplacement") = Len(MatchSpans)

C13_Witness ==
    /\ Built
    /\ occurrence = 0
    /\ Len(Appends) >= 4
    /\ Appends[1].wrote > 0
    /\ CountOf("appendReplacement") = Len(MatchSpans)

(***************************************************************************)
(* C14.  When replace builds a result without matcher error, the first     *)
(* H = max(start, end of the last skipped match) units of the result are   *)
(* the first H units of the original text, also where the text before the  *)
(* start offset contains matches of the pattern.  An appendHead with       *)
(* H = 0 leaves the buffer as it was sized and the cursor at 0.            *)
(***************************************************************************)
HeadLength == Max(end_of_previous_match, start)

JustAppendedHead ==
    /\ pc \in {"replace", "tail"}
    /\ log[Len(log)].op = "appendHead"

C14_HeadPreserved ==
    /\ Built /\ NoMatcherError =>
          /\ HeadLength <= originalSize
          /\ HeadLength <= returnSize
          /\ SubSeq(ResultText, 1, HeadLength) = SubSeq(original, 1, HeadLength)
    /\ JustAppendedHead /\ HeadLength = 0 =>
          /\ m_replace_buffer = Fill(NUL, originalSize)
          /\ m_replace_buffer_pos = 0
          /\ log[Len(log)].wrote = 0

\* the pattern matches inside the head, and a later match was replaced
C14_Witness ==
    /\ Built
    /\ NoMatcherError
    /\ start >= 1
    /\ LET first == uregex_find(regexp, 0, U_ZERO_ERROR, FALSE)
       IN  first.res /\ first.re.fMatchEnd <= start /\ first.re.fMatchEnd > first.re.fMatchStart
    /\ CountOf("appendReplacement") >= 1
    /\ ResultText # original

(***************************************************************************)
(* C15.  Every call of replace eventually reaches Done, along              *)
(* Searching -> ReturnOriginal -> Done or Searching -> Replacing ->        *)
(* Finalizing -> Done.  The skip loop runs at most occurrence - 1 times,   *)
(* the replace-all loop at most once per match the matcher reports (and a  *)
(* text of originalSize units has at most originalSize + 1 of them), and   *)
(* after Finalizing nothing but Done follows.                              *)
(***************************************************************************)
Searching == pc \in {"call", "skip"}
Replacing == pc \in {"replace", "next", "tail"}
Finalizing == pc = "finalize"
Done == pc = "done"

LoopsBounded ==
    /\ CountOf("skip") <= Max(occurrence - 1, 0)
    /\ CountOf("skip") = Max(i - 1, 0)
    /\ CountOf("appendReplacement") <= MatchesReported
    /\ CountOf("appendReplacement") <= originalSize + 1
    /\ CountOf("findNext") <= CountOf("appendReplacement")
    /\ occurrence # 0 => CountOf("findNext") = 0

PathStep ==
    \/ Searching /\ Searching' /\ (pc' # pc \/ i' = i + 1)
    \/ Searching /\ Done' /\ returnStr'.ptr = "original"
    \/ Searching /\ Replacing'
    \/ Replacing /\ Replacing'
    \/ Replacing /\ Finalizing'
    \/ Finalizing /\ Done' /\ returnStr'.ptr = "new"

C15_ReachesDone ==
    /\ <>Done
    /\ []LoopsBounded
    /\ [][PathStep]_vars
    /\ [](Done => [](Done /\ returnStr.ptr # "none"))

C15_Witness ==
    /\ Done
    /\ returnStr.ptr = "new"
    /\ occurrence = 0
    /\ CountOf("appendReplacement") = originalSize + 1
    /\ originalSize = MaxLen

(***************************************************************************)
(* C16.  The outcome of replace does not depend on earlier calls: every    *)
(* call starts with an empty working buffer and the cursor at 0, and a     *)
(* call on the handle an earlier call with the same arguments left behind  *)
(* returns the same kind of buffer, the same text and the same length,     *)
(* provided the match engine gave up at the same points in both.           *)
(***************************************************************************)
C16_CallsAreIndependent ==
    /\ pc = "skip" => m_replace_buffer = <<>> /\ m_replace_buffer_pos = 0
    /\ Done /\ callNo > 1 /\ FaultPoints = previous.faults =>
          /\ returnStr.ptr = previous.ptr
          /\ ResultText = previous.text
          /\ returnSize = previous.size

\* the second call starts on a handle left at its last match
C16_Witness ==
    /\ Done
    /\ callNo = 2
    /\ FaultPoints = previous.faults
    /\ previous.ptr = "new"
    /\ occurrence = 0
    /\ CountOf("appendReplacement") >= 2
    /\ ResultText # original

(***************************************************************************)
(* C17.  Whenever appendHead copies (size > 0 and the error code clear     *)
(* after uregex_getText), size <= originalSize, so it reads only units of  *)
(* the original text.  This holds for every start offset and selector; for *)
(* a start offset the matcher rejects nothing is copied.                   *)
(***************************************************************************)
StartRejected == start < -1 \/ start > originalSize

C17_HeadCopyWithinText ==
    JustAppendedHead =>
        LET head == log[Len(log)]
        IN  /\ head.wrote > 0 =>
                  /\ head.wrote <= originalSize
                  /\ head.wrote = HeadLength
                  /\ m_error_code = U_ZERO_ERROR
                  /\ SubSeq(m_replace_buffer, 1, head.wrote) = SubSeq(original, 1, head.wrote)
            /\ \A k \in 1..Len(m_replace_buffer) : m_replace_buffer[k] # "?"
            /\ StartRejected => head.wrote = 0

C17_Witness ==
    /\ JustAppendedHead
    /\ originalSize > 0
    /\ log[Len(log)].wrote = originalSize
    /\ start = originalSize
    /\ occurrence > 0

(***************************************************************************)
(* C18.  appendReplacement and appendTail call into the matcher only when  *)
(* the working buffer has a size above 0; on an empty working buffer they  *)
(* make no call, report length 0 and leave the buffer, the cursor and the  *)
(* error code as they were.  So when originalSize = 0 and a match is       *)
(* found, replace returns a newly built result of length 0 whatever the    *)
(* replacement text is.                                                    *)
(***************************************************************************)
C18_EmptyBufferIsLeftAlone ==
    /\ \A k \in 1..Len(log) :
          log[k].op \in GrowingOps =>
              /\ log[k - 1].size > 0 => log[k].calls >= 1
              /\ log[k - 1].size = 0 =>
                    /\ log[k].calls = 0
                    /\ log[k].n = 0
                    /\ log[k].wrote = 0
                    /\ log[k].size = 0
                    /\ log[k].pos = log[k - 1].pos
                    /\ log[k].status = log[k - 1].status
    /\ Done /\ originalSize = 0 /\ found =>
          /\ returnStr.ptr = "new"
          /\ returnSize = 0
          /\ CountOf("appendReplacement") >= 1

C18_Witness ==
    /\ Done
    /\ originalSize = 0
    /\ found
    /\ replacement # <<>>
    /\ returnStr.ptr = "new"
    /\ returnSize = 0

(***************************************************************************)
(* C19.  For every negative selector replace behaves exactly as for        *)
(* selector 1: no match is skipped, exactly one appendReplacement is made, *)
(* for the first match at or after start, no further findNext is          *)
(* requested, and the result is the one selector 1 gives.                  *)
(***************************************************************************)
\* What file.cpp:64-83 comes to when neither loop goes round: the first
\* find, the head, one replacement if found, the tail, the truncation.
SinglePass(fault) ==
    LET first == uregex_find(regexp, start, U_ZERO_ERROR, fault)
    IN  IF ~first.res /\ U_SUCCESS(first.status)
          THEN [ptr |-> "original", text |-> original, size |-> originalSize]
        ELSE
          LET head == appendHead(first.re, Resize(<<>>, originalSize), 0, first.status,
                                 Max(0, start))
              repl == IF first.res
                        THEN appendReplacement(first.re, head.buf, head.pos, head.status,
                                               replacement)
                        ELSE head
              tail == appendTail(first.re, repl.buf, repl.pos, repl.status)
          IN  [ptr |-> "new", text |-> Resize(tail.buf, tail.pos), size |-> tail.pos]

FirstFindFaulted == Len(log) >= 1 /\ log[1].status = U_REGEX_STACK_OVERFLOW

C19_NegativeSelectorIsFirstMatch ==
    occurrence < 0 \/ occurrence = 1 =>
        /\ CountOf("skip") = 0
        /\ CountOf("findNext") = 0
        /\ CountOf("appendReplacement") <= 1
        /\ Done =>
              /\ CountOf("appendReplacement") = (IF found THEN 1 ELSE 0)
              /\ found = log[1].res
              /\ returnStr.ptr = SinglePass(FirstFindFaulted).ptr
              /\ ResultText = SinglePass(FirstFindFaulted).text
              /\ returnSize = SinglePass(FirstFindFaulted).size
              /\ found /\ NoMatcherError =>
                    /\ MatchSpans # <<>>
                    /\ regexp.fMatchStart = MatchSpans[1].s
                    /\ regexp.fMatchEnd = MatchSpans[1].e

C19_Witness ==
    /\ Done
    /\ occurrence < -1
    /\ returnStr.ptr = "new"
    /\ NoMatcherError
    /\ Len(MatchSpans) >= 2
    /\ CountOf("appendReplacement") = 1
    /\ ResultText # original

====
